---- MODULE Spec2Model ----
(***************************************************************************)
(* Model of RMS/Formats/FrameInterface.py: the four input handles          *)
(* InputTypeFF, InputTypeVideo, InputTypeUWOVid and InputTypeImages, their *)
(* chunk / frame navigation, the chunk aggregation loop and the one-entry  *)
(* cache.                                                                  *)
(*                                                                         *)
(* A frame is modelled by one pixel: every array operation of the source   *)
(* (np.max, +=, astype) acts on each pixel independently.  Python indices  *)
(* are 0-based, the sequence `frames' is 1-based: frame p is frames[p+1].  *)
(* The float64 accumulator of avepixel is modelled by its exact numerator  *)
(* (the sum of the frames read); the final astype() is the truncating      *)
(* division of that sum by frames_to_read.                                 *)
(* The position of the underlying file / capture handle is not a variable: *)
(* every read in the source is preceded by a seek (cap.set, vid_file.seek) *)
(* in the same method.                                                     *)
(***************************************************************************)
EXTENDS Integers, Sequences, FiniteSets, TLC

VARIABLES
    kind,                   \* input_type: "ff", "video", "vid" or "images"
    frames,                 \* the source: pixel value of every frame (streaming handles)
    ff_list,                \* InputTypeFF.ff_list, sorted file names
    ff_nframes,             \* nframes stored in every FF file on disk
    current_ff_index,       \* InputTypeFF.current_ff_index
    current_ff_file,        \* InputTypeFF.current_ff_file
    ff,                     \* InputTypeFF.ff, the FF structure read last
    beginning_datetime,
    total_frames,
    fr_chunk_no,
    total_fr_chunks,
    current_frame_chunk,
    current_frame,
    current_fr_chunk_size,
    frame_chunk_unix_times, \* InputTypeUWOVid.frame_chunk_unix_times
    current_frame_time,     \* InputTypeUWOVid.current_frame_time
    current_img_file,       \* InputTypeImages.current_img_file
    cache,                  \* the dict self.cache, a function on its set of keys
    detect_args,            \* the arguments detectInputType was called with
    img_handle,             \* how that call ended: "handle" when it returned an
                            \* adapter, "None" when it returned None, "exit"
                            \* when a constructor ended the process
    lastOp,                 \* history: the last call and its argument
    lastRet,                \* history: what the last call returned
    nDecoded,               \* history: frames decoded by the last call
    runLen                  \* history: calls in the current run of one navigation
                            \* call that started at index 0; 0 when there is none

vars == <<kind, frames, ff_list, ff_nframes, current_ff_index, current_ff_file, ff,
          beginning_datetime, total_frames, fr_chunk_no, total_fr_chunks,
          current_frame_chunk, current_frame, current_fr_chunk_size,
          frame_chunk_unix_times, current_frame_time, current_img_file, cache,
          detect_args, img_handle, lastOp, lastRet, nDecoded, runLen>>

\* what a streaming handle never changes after construction
source == <<kind, frames, ff_list, ff_nframes, total_frames, fr_chunk_no, total_fr_chunks,
            detect_args, img_handle>>

-----------------------------------------------------------------------------
(* Bounds of the model *)

MaxFrames == 3        \* longest streaming source of Spec
MaxChunkLen == 2      \* longest nominal chunk of Spec
MaxPix == 3           \* pixel value of a bright frame; a dark frame is 0
MaxFiles == 3         \* most FF files in the directory
MaxFFFrames == 2      \* most frames stored in one FF file
MaxRun == 3           \* longest run of one navigation call that is counted

(* Program constants *)

VideoChunkNo == 256
VidChunkNo == 128
ImagesChunkNo == 64

Kinds == {"ff", "video", "vid", "images"}
Streaming == {"video", "vid", "images"}

\* Python's None as an argument or attribute value; -1 stays the integer -1
None == <<>>
Given(n) == <<n>>
IsNone(a) == a = <<>>
Val(a) == a[1]
IsMinusOne(a) == (~IsNone(a)) /\ Val(a) = -1

\* the end-of-stream value of the decode primitives (frame is None)
NoFrame == -1

Min(S) == CHOOSE m \in S : \A x \in S : m <= x

-----------------------------------------------------------------------------
(* External collaborators *)

\* RMS.Formats.FFfile.filenameToDatetime: the time encoded in an FF file name
filenameToDatetime(file_name) == 1000 + 10 * file_name

\* RMS.Formats.FFfile.read: the FF structure stored in a file
readFF(file_name) == [file |-> file_name, nframes |-> ff_nframes[file_name]]

\* RMS.Formats.FFfile.reconstructFrame
reconstructFrameFF(ffs, fr, avepixel) == [file |-> ffs.file, frame |-> fr, ave |-> avepixel]

\* the unix time (ts + tu/1e6) embedded in frame p of a vid file, in ticks
VidFrameTime(p) == 500 + 3 * p

\* unixTime2Date of the time stamp of a vid frame
unixTime2Date(t) == [date |-> t]

\* the decode primitive at absolute frame position p:
\* cap.read() after cap.set(1, p), readVidFrame after seek(p*seqlen)
Decode(p) == IF p >= 0 /\ p < total_frames THEN frames[p + 1] ELSE NoFrame

\* InputTypeImages.img_list: the sorted image file names, by frame index
img_list(i) == 7000 + i

\* bit depth of maxpixel / avepixel: np.uint16 for vid, np.uint8 otherwise
Depth(k) == IF k = "vid" THEN 65536 ELSE 256

-----------------------------------------------------------------------------
(* computeFramesToRead *)

\* a variant that lets the default count of the last chunk run to the end of
\* the source
computeFramesToReadToEnd(read_nframes, total, chunk_no, current_chunk) ==
    IF IsMinusOne(read_nframes)
      THEN total
      ELSE LET requested == IF IsNone(read_nframes) THEN chunk_no ELSE Val(read_nframes)
           IN  IF (current_chunk + 2) * chunk_no > total
                 THEN total - current_chunk * chunk_no
                 ELSE requested

\* a variant that never replaces the requested count by the frames left
computeFramesToReadNoCap(read_nframes, total, chunk_no, current_chunk) ==
    IF IsMinusOne(read_nframes)
      THEN total
      ELSE IF IsNone(read_nframes) THEN chunk_no ELSE Val(read_nframes)

computeFramesToRead(read_nframes, total, chunk_no, current_chunk) ==
    IF IsMinusOne(read_nframes)
      THEN total
      ELSE LET requested == IF IsNone(read_nframes) THEN chunk_no ELSE Val(read_nframes)
           IN  IF (current_chunk + 1) * chunk_no > total
                 THEN total - current_chunk * chunk_no
                 ELSE requested

\* FFMimickInterface
FFMimickInterface(maxpixel, avepixel, nrows, ncols, nframes) ==
    [maxpixel |-> maxpixel, avepixel |-> avepixel, nrows |-> nrows, ncols |-> ncols,
     nframes |-> nframes]

-----------------------------------------------------------------------------
(* The aggregation loop of loadChunk                                       *)
(*   for i in range(frames_to_read): read; break at the end; fold          *)
(* The loop is folded by halving the range of the iterations that ran, so  *)
(* that a window of several hundred frames can be evaluated; max and + are *)
(* associative, the result is that of the sequential loop.                 *)

\* the first frame the loop reads: 0 for -1, the chunk offset otherwise
FirstFrame(read_nframes, chunk) ==
    IF IsMinusOne(read_nframes) THEN 0 ELSE chunk * fr_chunk_no

\* iteration i leaves the loop through its break
LoopBreaks(k, first, i) ==
    IF k = "images"
      THEN first + i >= total_frames - 1
      ELSE Decode(first + i) = NoFrame

\* the number of iterations that ran their body to its end
LoopStop(k, first, n) ==
    LET B == {i \in 0..(n - 1) : LoopBreaks(k, first, i)}
    IN  IF B = {} THEN n ELSE Min(B)

\* the value of the loop variable i after the loop
LoopVar(stop, n) == IF stop < n THEN stop ELSE n - 1

Max2(a, b) == IF a >= b THEN a ELSE b

\* np.max([maxpixel, frame], axis=0) over the iterations lo..hi
RECURSIVE FoldMax(_, _, _)
FoldMax(first, lo, hi) ==
    IF lo > hi THEN 0
    ELSE IF lo = hi THEN Decode(first + lo)
    ELSE LET mid == (lo + hi) \div 2
         IN  Max2(FoldMax(first, lo, mid), FoldMax(first, mid + 1, hi))

\* the numerator of avepixel += frame/frames_to_read over the iterations lo..hi
RECURSIVE FoldSum(_, _, _)
FoldSum(first, lo, hi) ==
    IF lo > hi THEN 0
    ELSE IF lo = hi THEN Decode(first + lo)
    ELSE LET mid == (lo + hi) \div 2
         IN  FoldSum(first, lo, mid) + FoldSum(first, mid + 1, hi)

\* an average that is accumulated without dividing by frames_to_read
CastAveNoDivide(k, sum, n) == sum % Depth(k)

\* avepixel.astype(np.uint8 / np.uint16): truncation of the accumulated quotient
CastAve(k, sum, n) == (sum \div n) % Depth(k)

\* self.current_fr_chunk_size after the loop
ChunkSize(k, i) == IF k = "images" THEN i ELSE i + 1

\* the key the computed structure is stored under
CacheId(read_nframes, chunk) == IF IsMinusOne(read_nframes) THEN -1 ELSE chunk

\* a store that forgets to empty the dict first
CacheStoreKeep(old, cache_id, value) ==
    [key \in DOMAIN old \cup {cache_id} |-> IF key = cache_id THEN value ELSE old[key]]

\* self.cache = {} ; self.cache[cache_id] = value
CacheStore(old, cache_id, value) == [key \in {cache_id} |-> value]

EmptyCache == [key \in {} |-> 0]

\* One pass of the computing part of loadChunk of a streaming handle on chunk
\* `chunk': what it leaves in the fields and what it returns.  The vid handle
\* calls .astype on the value readVidFrame returned before testing it for
\* None, so reading past the end raises there.
ChunkResult(k, read_nframes, chunk) ==
    LET first == FirstFrame(read_nframes, chunk)
        n     == computeFramesToRead(read_nframes, total_frames, fr_chunk_no, chunk)
        stop  == LoopStop(k, first, n)
        i     == LoopVar(stop, n)
        maxpixel == Max2(0, FoldMax(first, 0, stop - 1)) % Depth(k)
        avepixel == CastAve(k, FoldSum(first, 0, stop - 1), n)
    IN  [raised  |-> (k = "vid" /\ stop < n) \/ n <= 0,
         frames_to_read |-> n,
         decoded |-> stop,
         size    |-> ChunkSize(k, i),
         times   |-> IF k = "vid" THEN [j \in 1..stop |-> VidFrameTime(first + j - 1)]
                                  ELSE <<>>,
         struct  |-> FFMimickInterface(maxpixel, avepixel, 1, 1, total_frames)]

\* what is stored in the cache for a computed chunk
CacheValue(k, r) == IF k = "vid" THEN <<r.struct, r.times>> ELSE r.struct

-----------------------------------------------------------------------------
(* Return values recorded in lastRet *)

RetNone == [tag |-> "none"]
RetRaise == [tag |-> "raise"]
RetStruct(s) == [tag |-> "struct", val |-> s]
RetList(l) == [tag |-> "list", val |-> l]
RetFrame(f) == [tag |-> "frame", val |-> f]

-----------------------------------------------------------------------------
(* Construction: the state __init__ leaves behind *)

\* the number of chunks without the clamp to 1
TotalChunksNoClamp(total, chunk_no) == total \div chunk_no

\* total_frames//fr_chunk_no, 1 when that is 0
TotalChunks(total, chunk_no) ==
    IF total \div chunk_no = 0 THEN 1 ELSE total \div chunk_no

InitHistory ==
    /\ lastOp = [op |-> "init", arg |-> None]
    /\ lastRet = RetNone
    /\ runLen = 0

\* InputTypeFF.__init__ with the files 1..n in the directory, ends in loadChunk()
InitFF(n, nfr) ==
    /\ kind = "ff"
    /\ frames = <<>>
    /\ ff_list = [j \in 1..n |-> j]
    /\ ff_nframes = nfr
    /\ current_ff_index = 0
    /\ current_ff_file = ff_list[1]
    /\ beginning_datetime = filenameToDatetime(ff_list[1])
    /\ current_frame = 0
    /\ ff = readFF(ff_list[1])
    /\ cache = CacheStore(EmptyCache, ff_list[1], readFF(ff_list[1]))
    /\ total_frames = 0 /\ fr_chunk_no = 0 /\ total_fr_chunks = 0
    /\ current_frame_chunk = 0 /\ current_fr_chunk_size = 0
    /\ frame_chunk_unix_times = <<>>
    /\ current_frame_time = None
    /\ current_img_file = None
    /\ nDecoded = 0
    /\ InitHistory

\* InputTypeVideo / InputTypeUWOVid / InputTypeImages.__init__ on a source of
\* the frames fs with nominal chunk length chunk_no; the vid and images
\* constructors end in loadChunk(), the video constructor does not load
InitStreaming(k, fs, chunk_no, begin) ==
    /\ kind = k
    /\ frames = fs
    /\ total_frames = Len(fs)
    /\ fr_chunk_no = chunk_no
    /\ total_fr_chunks = TotalChunks(Len(fs), chunk_no)
    /\ current_frame_chunk = 0
    /\ current_frame = 0
    /\ beginning_datetime = IF k = "vid" THEN unixTime2Date(VidFrameTime(0)) ELSE begin
    /\ current_frame_time = None
    /\ current_img_file = IF k = "images" THEN Given(img_list(0)) ELSE None
    /\ ff_list = <<>> /\ ff_nframes = <<>> /\ current_ff_index = 0
    /\ current_ff_file = None /\ ff = None
    /\ LET r == ChunkResult(k, None, 0)
       IN  IF k = "video"
             THEN /\ current_fr_chunk_size = chunk_no
                  /\ frame_chunk_unix_times = <<>>
                  /\ cache = EmptyCache
                  /\ nDecoded = 0
             ELSE /\ current_fr_chunk_size = r.size
                  /\ frame_chunk_unix_times = r.times
                  /\ cache = CacheStore(EmptyCache, 0, CacheValue(k, r))
                  /\ nDecoded = r.decoded
    /\ InitHistory

\* the vid constructor estimates the fps from the first and the last time of
\* the first chunk: it needs two frames in it
Constructible(k, fs, chunk_no) ==
    k = "vid" => (Len(fs) >= 2 /\ chunk_no >= 2)

SmallSources == UNION {[1..t -> {0, MaxPix}] : t \in 1..MaxFrames}

(* An input path is described by what the dispatcher and the constructors     *)
(* look at: is_dir, os.path.isdir; ff_names, the frame counts of the files    *)
(* with a valid FF name (of the directory, or the file itself); ext, the      *)
(* extension of a file; stamp, the time the base name parses to, None when it *)
(* does not parse; frames, the images of a directory or the frames of a file. *)
Path(is_dir, ff_names, ext, stamp, fs) ==
    [is_dir |-> is_dir, ff_names |-> ff_names, ext |-> ext, stamp |-> stamp, frames |-> fs]

\* validFFName of the file, any(validFFName) over the files of a directory
validFFName(input_path) == Len(input_path.ff_names) > 0

\* datetime.strptime(name, "%Y%m%d_%H%M%S.%f") does not raise
NameParses(input_path) == ~IsNone(input_path.stamp)

\* a beginning time that prefers the time in the name to the one given
BeginningDatetimeNameFirst(beginning_time, input_path) ==
    IF NameParses(input_path) THEN Val(input_path.stamp) ELSE Val(beginning_time)

\* self.beginning_datetime of InputTypeVideo and InputTypeImages: the time
\* read from the name when beginning_time is None, beginning_time otherwise
BeginningDatetime(beginning_time, input_path) ==
    IF IsNone(beginning_time) THEN Val(input_path.stamp) ELSE Val(beginning_time)

\* the call ended with no adapter: sys.exit() in the constructor of kind k
\* after it had set the beginning time begin, or return None; the attributes
\* that were never assigned keep the values below and no method is called
Ended(k, begin, how) ==
    /\ kind = k
    /\ img_handle = how
    /\ beginning_datetime = begin
    /\ frames = <<>> /\ ff_list = <<>> /\ ff_nframes = <<>>
    /\ current_ff_index = 0 /\ current_ff_file = None /\ ff = None
    /\ total_frames = 0 /\ fr_chunk_no = 0 /\ total_fr_chunks = 0
    /\ current_frame_chunk = 0 /\ current_frame = 0 /\ current_fr_chunk_size = 0
    /\ frame_chunk_unix_times = <<>>
    /\ current_frame_time = None
    /\ current_img_file = None
    /\ cache = EmptyCache
    /\ nDecoded = 0
    /\ InitHistory

\* InputTypeFF(dir_path, config) and InputTypeFF(file, config, single_ff=True)
InputTypeFF(input_path) ==
    IF Len(input_path.ff_names) = 0
      THEN Ended("ff", 0, "exit")
      ELSE /\ InitFF(Len(input_path.ff_names), input_path.ff_names)
           /\ img_handle = "handle"

\* InputTypeVideo(file, config, beginning_time)
InputTypeVideo(input_path, beginning_time, chunk_no) ==
    IF IsNone(beginning_time) /\ ~NameParses(input_path)
      THEN Ended("video", 0, "exit")
      ELSE /\ InitStreaming("video", input_path.frames, chunk_no,
                            BeginningDatetime(beginning_time, input_path))
           /\ img_handle = "handle"

\* InputTypeUWOVid(file, config)
InputTypeUWOVid(input_path, chunk_no) ==
    /\ InitStreaming("vid", input_path.frames, chunk_no, 0)
    /\ img_handle = "handle"

\* InputTypeImages(dir_path, config, beginning_time, fps)
InputTypeImages(input_path, beginning_time, chunk_no) ==
    IF IsNone(beginning_time) /\ ~NameParses(input_path)
      THEN Ended("images", 0, "exit")
    ELSE IF Len(input_path.frames) = 0
      THEN Ended("images", BeginningDatetime(beginning_time, input_path), "exit")
      ELSE /\ InitStreaming("images", input_path.frames, chunk_no,
                            BeginningDatetime(beginning_time, input_path))
           /\ img_handle = "handle"

\* the extensions detectInputType takes for a video file
VideoExts == {"mp4", "avi", "mkv"}

\* detectInputType(input_path, config, beginning_time, fps, skip_ff_dir); the
\* chunk length the constructors fix is the parameter chunk_no
detectInputType(input_path, beginning_time, skip_ff_dir, chunk_no) ==
    /\ detect_args = [input_path |-> input_path, beginning_time |-> beginning_time,
                      skip_ff_dir |-> skip_ff_dir]
    /\ IF input_path.is_dir
         THEN IF validFFName(input_path) /\ ~skip_ff_dir
                THEN InputTypeFF(input_path)
                ELSE InputTypeImages(input_path, beginning_time, chunk_no)
         ELSE IF validFFName(input_path)
                THEN InputTypeFF(input_path)
         ELSE IF input_path.ext \in VideoExts
                THEN InputTypeVideo(input_path, beginning_time, chunk_no)
         ELSE IF input_path.ext = "vid"
                THEN InputTypeUWOVid(input_path, chunk_no)
                ELSE Ended("none", 0, "None")

\* a directory of FF files with the frame counts nfr
FFDir(nfr) == Path(TRUE, nfr, "", None, <<>>)

\* the path of a streaming source of kind k with the frames fs
StreamPath(k, fs) ==
    Path(k = "images", <<>>,
         IF k = "video" THEN "mp4" ELSE IF k = "vid" THEN "vid" ELSE "", None, fs)

Init ==
    \/ \E n \in 1..MaxFiles : \E nfr \in [1..n -> 1..MaxFFFrames] :
          detectInputType(FFDir(nfr), None, FALSE, 1)
    \/ \E k \in Streaming : \E fs \in SmallSources : \E chunk_no \in 1..MaxChunkLen :
          /\ Constructible(k, fs, chunk_no)
          /\ detectInputType(StreamPath(k, fs), Given(0), FALSE, chunk_no)

-----------------------------------------------------------------------------
(* Navigation *)

\* stepping that stops at the last / first index instead of wrapping
NextIndexClamped(index, total) == IF index + 1 >= total THEN index ELSE index + 1
PrevIndexClamped(index, total) == IF index = 0 THEN 0 ELSE index - 1

\* (index + 1) % total and (index - 1) % total
NextIndex(index, total) == (index + 1) % total
PrevIndex(index, total) == (index - 1) % total

\* the frame index a chunk step of a streaming handle selects
ChunkStart(chunk, chunk_no) == chunk * chunk_no

\* history of a navigation call op made when the index it moves was idx
Run(op, idx) ==
    /\ lastOp' = [op |-> op, arg |-> None]
    /\ lastRet' = RetNone
    /\ nDecoded' = 0
    /\ runLen' = IF lastOp.op = op /\ runLen > 0 /\ runLen < MaxRun THEN runLen + 1
                  ELSE IF idx = 0 THEN 1
                  ELSE 0

\* nextChunk / prevChunk of InputTypeFF: select the file, refresh the beginning time
\* a chunk step of the FF handle that keeps the beginning time of the file left
ChunkStepFFStale(op, index) ==
    /\ img_handle = "handle"
    /\ kind = "ff"
    /\ current_ff_index' = index
    /\ current_ff_file' = ff_list[index + 1]
    /\ Run(op, current_ff_index)
    /\ UNCHANGED <<source, ff, current_frame, cache, current_frame_chunk,
                   current_fr_chunk_size, frame_chunk_unix_times, current_frame_time,
                   current_img_file, beginning_datetime>>

\* nextChunk / prevChunk of InputTypeFF
ChunkStepFF(op, index) ==
    /\ img_handle = "handle"
    /\ kind = "ff"
    /\ current_ff_index' = index
    /\ current_ff_file' = ff_list[index + 1]
    /\ beginning_datetime' = filenameToDatetime(ff_list[index + 1])
    /\ Run(op, current_ff_index)
    /\ UNCHANGED <<source, ff, current_frame, cache, current_frame_chunk,
                   current_fr_chunk_size, frame_chunk_unix_times, current_frame_time,
                   current_img_file>>

\* a chunk step that also empties the cache
ChunkStepStreamingClear(op, chunk) ==
    /\ img_handle = "handle"
    /\ kind \in Streaming
    /\ current_frame_chunk' = chunk
    /\ current_frame' = chunk * fr_chunk_no
    /\ cache' = EmptyCache
    /\ Run(op, current_frame_chunk)
    /\ UNCHANGED <<source, ff, beginning_datetime, current_ff_index,
                   current_ff_file, current_fr_chunk_size, frame_chunk_unix_times,
                   current_frame_time, current_img_file>>

\* nextChunk / prevChunk of the streaming handles
ChunkStepStreaming(op, chunk) ==
    /\ img_handle = "handle"
    /\ kind \in Streaming
    /\ current_frame_chunk' = chunk
    /\ current_frame' = ChunkStart(chunk, fr_chunk_no)
    /\ Run(op, current_frame_chunk)
    /\ UNCHANGED <<source, ff, cache, beginning_datetime, current_ff_index,
                   current_ff_file, current_fr_chunk_size, frame_chunk_unix_times,
                   current_frame_time, current_img_file>>

nextChunk ==
    \/ ChunkStepFF("nextChunk", NextIndex(current_ff_index, Len(ff_list)))
    \/ ChunkStepStreaming("nextChunk", NextIndex(current_frame_chunk, total_fr_chunks))

prevChunk ==
    \/ ChunkStepFF("prevChunk", PrevIndex(current_ff_index, Len(ff_list)))
    \/ ChunkStepStreaming("prevChunk", PrevIndex(current_frame_chunk, total_fr_chunks))

\* the modulus of a frame step: nframes of the loaded FF, total_frames otherwise
FrameModulus == IF kind = "ff" THEN ff.nframes ELSE total_frames

\* a frame step that also moves the chunk index to the chunk of the frame
FrameStepSync(op, frame) ==
    /\ img_handle = "handle"
    /\ current_frame' = frame
    /\ current_frame_chunk' = IF kind \in Streaming THEN frame \div fr_chunk_no
                                                    ELSE current_frame_chunk
    /\ current_img_file' = IF kind = "images" THEN Given(img_list(frame))
                                             ELSE current_img_file
    /\ Run(op, current_frame)
    /\ UNCHANGED <<source, ff, cache, beginning_datetime, current_ff_index,
                   current_ff_file, current_fr_chunk_size,
                   frame_chunk_unix_times, current_frame_time>>

\* nextFrame / prevFrame; the images handle also selects the image file
FrameStep(op, frame) ==
    /\ img_handle = "handle"
    /\ current_frame' = frame
    /\ current_img_file' = IF kind = "images" THEN Given(img_list(frame))
                                             ELSE current_img_file
    /\ Run(op, current_frame)
    /\ UNCHANGED <<source, ff, cache, beginning_datetime, current_ff_index,
                   current_ff_file, current_frame_chunk, current_fr_chunk_size,
                   frame_chunk_unix_times, current_frame_time>>

nextFrame == FrameStep("nextFrame", NextIndex(current_frame, FrameModulus))

prevFrame == FrameStep("prevFrame", PrevIndex(current_frame, FrameModulus))

-----------------------------------------------------------------------------
(* loadChunk *)

\* history of a call that is not a navigation step
Call(op, arg, ret, decoded) ==
    /\ lastOp' = [op |-> op, arg |-> arg]
    /\ lastRet' = ret
    /\ nDecoded' = decoded
    /\ runLen' = 0

\* InputTypeFF.loadChunk: the cached structure of the current file, or read it
loadChunkFF(read_nframes) ==
    /\ img_handle = "handle"
    /\ kind = "ff"
    /\ IF current_ff_file \in DOMAIN cache
         THEN /\ Call("loadChunk", read_nframes, RetStruct(cache[current_ff_file]), 0)
              /\ UNCHANGED <<ff, current_frame, cache>>
         ELSE /\ ff' = readFF(current_ff_file)
              /\ current_frame' = 0
              /\ cache' = CacheStore(cache, current_ff_file, readFF(current_ff_file))
              /\ Call("loadChunk", read_nframes, RetStruct(readFF(current_ff_file)), 1)
    /\ UNCHANGED <<source, beginning_datetime, current_ff_index, current_ff_file,
                   current_frame_chunk, current_fr_chunk_size, frame_chunk_unix_times,
                   current_frame_time, current_img_file>>

\* the cache lookup at the head of loadChunk of the streaming handles
CacheHit(read_nframes) ==
    IF IsMinusOne(read_nframes)
      THEN -1 \in DOMAIN cache
      ELSE current_frame_chunk \in DOMAIN cache

\* what the lookup returns: cache[-1] as it is stored, or the structure of the
\* entry of the current chunk (the vid handle unpacks the stored pair)
HitReturn(k, read_nframes) ==
    IF IsMinusOne(read_nframes)
      THEN IF k = "vid" THEN RetList(cache[-1]) ELSE RetStruct(cache[-1])
      ELSE IF k = "vid" THEN RetStruct(cache[current_frame_chunk][1])
                        ELSE RetStruct(cache[current_frame_chunk])

\* the unix times after a lookup that hit
HitTimes(k, read_nframes) ==
    IF k = "vid" /\ ~IsMinusOne(read_nframes)
      THEN cache[current_frame_chunk][2]
      ELSE frame_chunk_unix_times

\* loadChunk of InputTypeVideo, InputTypeUWOVid and InputTypeImages
loadChunkStreaming(read_nframes) ==
    /\ img_handle = "handle"
    /\ kind \in Streaming
    /\ LET r == ChunkResult(kind, read_nframes, current_frame_chunk)
       IN  IF CacheHit(read_nframes)
             THEN /\ frame_chunk_unix_times' = HitTimes(kind, read_nframes)
                  /\ Call("loadChunk", read_nframes, HitReturn(kind, read_nframes), 0)
                  /\ UNCHANGED <<cache, current_fr_chunk_size>>
             ELSE IF r.raised
             THEN /\ frame_chunk_unix_times' = r.times
                  /\ Call("loadChunk", read_nframes, RetRaise, r.decoded)
                  /\ UNCHANGED <<cache, current_fr_chunk_size>>
             ELSE /\ frame_chunk_unix_times' = r.times
                  /\ current_fr_chunk_size' = r.size
                  /\ cache' = CacheStore(cache, CacheId(read_nframes, current_frame_chunk),
                                         CacheValue(kind, r))
                  /\ Call("loadChunk", read_nframes, RetStruct(r.struct), r.decoded)
    /\ UNCHANGED <<source, ff, beginning_datetime, current_ff_index, current_ff_file,
                   current_frame_chunk, current_frame, current_frame_time,
                   current_img_file>>

loadChunk(read_nframes) ==
    \/ loadChunkFF(read_nframes)
    \/ loadChunkStreaming(read_nframes)

-----------------------------------------------------------------------------
(* loadFrame *)

\* cv2.imread of an image file of the directory
imread(file_name) == Decode(file_name - img_list(0))

\* the frame loadFrame returns
LoadedFrame(avepixel, fr_no) ==
    IF kind = "ff" THEN reconstructFrameFF(ff, current_frame, avepixel)
    ELSE IF kind = "images"
      THEN imread(IF IsNone(fr_no) THEN Val(current_img_file) ELSE img_list(Val(fr_no)))
      ELSE Decode(current_frame)

\* a loadFrame that would select the file it read as the current image file
ImgFileAfterLoadFrameSelect(fr_no) ==
    IF IsNone(fr_no) THEN current_img_file ELSE Given(img_list(Val(fr_no)))

\* self.current_img_file after InputTypeImages.loadFrame: the file to read is
\* held in a local variable, the attribute is not assigned
ImgFileAfterLoadFrame(fr_no) == current_img_file

\* loadFrame(avepixel) of the four handles; only InputTypeImages takes fr_no,
\* only InputTypeUWOVid keeps the time of the frame it read
loadFrame(avepixel, fr_no) ==
    /\ img_handle = "handle"
    /\ kind # "images" => IsNone(fr_no)
    /\ current_frame_time' = IF kind = "vid"
                               THEN Given(unixTime2Date(VidFrameTime(current_frame)))
                               ELSE current_frame_time
    /\ current_img_file' = ImgFileAfterLoadFrame(fr_no)
    /\ Call("loadFrame", fr_no, RetFrame(LoadedFrame(avepixel, fr_no)), 1)
    /\ UNCHANGED <<source, ff, cache, beginning_datetime, current_ff_index,
                   current_ff_file, current_frame_chunk, current_frame,
                   current_fr_chunk_size, frame_chunk_unix_times>>

-----------------------------------------------------------------------------
(* currentTime and currentFrameTime *)
(* Times of the video and images handles are counted in half frame periods,  *)
(* 1/(2*fps) s, so that (offset + size/2)/fps is the integer 2*offset + size *)
(* and frame/fps is 2*frame.                                                 *)

\* currentTime of InputTypeVideo and InputTypeImages: the beginning time plus
\* (current_frame_chunk*fr_chunk_no + current_fr_chunk_size/2)/fps
currentTime ==
    beginning_datetime
      + (2 * current_frame_chunk * fr_chunk_no + current_fr_chunk_size)

\* currentFrameTime: the time kept by the last loadFrame of InputTypeUWOVid,
\* an AttributeError while there is none; beginning time plus
\* current_frame/fps for the other handles
currentFrameTime ==
    IF kind = "vid"
      THEN IF IsNone(current_frame_time) THEN RetRaise
                                         ELSE [tag |-> "time", val |-> Val(current_frame_time)]
      ELSE [tag |-> "time", val |-> beginning_datetime + 2 * current_frame]

-----------------------------------------------------------------------------
(* The handle driven by any caller *)

\* the read_nframes a caller passes: None, -1, or a positive count: a single
\* frame, one more than the nominal chunk, one more than the source holds
Counts == {None, Given(-1)} \cup {Given(n) : n \in {1, fr_chunk_no + 1, total_frames + 1}}

\* the fr_no a caller passes to InputTypeImages.loadFrame
FrameNos == {None} \cup {Given(i) : i \in 0..(total_frames - 1)}

Next ==
    \/ nextChunk
    \/ prevChunk
    \/ nextFrame
    \/ prevFrame
    \/ \E n \in Counts : loadChunk(n)
    \/ \E a \in BOOLEAN : \E f \in FrameNos : loadFrame(a, f)

Spec == Init /\ [][Next]_vars

-----------------------------------------------------------------------------
(* The handles with the chunk lengths of the source, on sources long enough  *)
(* to hold several chunks, driven chunk by chunk                             *)

\* self.fr_chunk_no of each streaming handle
NominalChunkNo(k) ==
    IF k = "video" THEN VideoChunkNo
    ELSE IF k = "vid" THEN VidChunkNo
    ELSE ImagesChunkNo

\* a source of t frames, every hundredth of them bright
LongSource(t) == [p \in 1..t |-> IF p % 100 = 0 THEN MaxPix ELSE 0]

\* the numbers of frames of the long sources
LongLengths(k) ==
    IF k = "video" THEN {100, 600}
    ELSE IF k = "vid" THEN {300}
    ELSE {130}

InitNominal ==
    \/ \E n \in 1..MaxFiles : \E nfr \in [1..n -> 1..MaxFFFrames] :
          detectInputType(FFDir(nfr), None, FALSE, 1)
    \/ \E k \in Streaming : \E t \in LongLengths(k) :
          detectInputType(StreamPath(k, LongSource(t)), Given(0), FALSE, NominalChunkNo(k))

NextNominal ==
    \/ nextChunk
    \/ prevChunk
    \/ \E n \in Counts : loadChunk(n)

SpecNominal == InitNominal /\ [][NextNominal]_vars

-----------------------------------------------------------------------------
(* The dispatcher on every kind of path, with and without a beginning time *)

\* the contents of a path: no frame, or up to a chunk of frames, the first bright
DispatchFrames == {[p \in 1..t |-> IF p = 1 THEN MaxPix ELSE 0] : t \in 0..MaxChunkLen}

\* FF-named files of a path: none, or two in a directory, or the file itself
DispatchFFNames(is_dir) == IF is_dir THEN {<<>>, <<1, MaxFFFrames>>} ELSE {<<>>, <<MaxFFFrames>>}

DispatchExts == VideoExts \cup {"vid", "txt"}

\* directories, which may hold no image, and files, which hold a frame
DispatchPaths ==
    {Path(TRUE, n, "", st, fs) :
        n \in DispatchFFNames(TRUE), st \in {None, Given(20)}, fs \in DispatchFrames}
    \cup
    {Path(FALSE, n, e, st, fs) :
        n \in DispatchFFNames(FALSE), e \in DispatchExts, st \in {None, Given(20)},
        fs \in {f \in DispatchFrames : Len(f) > 0}}

\* the path goes to the constructor of the vid handle
ToVid(input_path) ==
    ~input_path.is_dir /\ ~validFFName(input_path) /\ input_path.ext = "vid"

InitDispatch ==
    \E input_path \in DispatchPaths : \E beginning_time \in {None, Given(50)} :
    \E skip_ff_dir \in BOOLEAN : \E chunk_no \in 1..MaxChunkLen :
        /\ ToVid(input_path) => Constructible("vid", input_path.frames, chunk_no)
        /\ detectInputType(input_path, beginning_time, skip_ff_dir, chunk_no)

SpecDispatch == InitDispatch /\ [][Next]_vars

-----------------------------------------------------------------------------
(* Properties *)

\* the chunk index and the number of chunks of any handle
ChunkIndex == IF kind = "ff" THEN current_ff_index ELSE current_frame_chunk
ChunkCount == IF kind = "ff" THEN Len(ff_list) ELSE total_fr_chunks

ChunkSteps == {"nextChunk", "prevChunk"}
FrameSteps == {"nextFrame", "prevFrame"}

\* C1: after N consecutive nextChunk calls from chunk index 0 the chunk index is
\* N mod the number of chunks, after N consecutive prevChunk calls it is
\* (-N) mod the number of chunks, for every handle
C1_ChunkRunIsModular ==
    /\ (lastOp.op = "nextChunk" /\ runLen > 0) => ChunkIndex = runLen % ChunkCount
    /\ (lastOp.op = "prevChunk" /\ runLen > 0) => ChunkIndex = (0 - runLen) % ChunkCount

\* C1 witness: nextChunk from the last chunk of several has wrapped to chunk 0
C1_Witness ==
    /\ lastOp.op = "nextChunk"
    /\ ChunkCount >= 2
    /\ runLen = ChunkCount
    /\ ChunkIndex = 0

C3_IndicesInRange ==
    kind \in Streaming =>
        /\ total_fr_chunks >= 1
        /\ 0 <= current_frame_chunk /\ current_frame_chunk < total_fr_chunks
        /\ 0 <= current_frame /\ current_frame < total_frames

\* C3 witness: a chunk step was taken on a source shorter than one chunk
C3_Witness ==
    /\ kind \in Streaming
    /\ total_frames < fr_chunk_no
    /\ total_fr_chunks = 1
    /\ lastOp.op \in ChunkSteps

\* the first frame of the selected chunk: the chunk offset of a streaming
\* handle; frame 0 of the file for the FF handle, whose frame index counts
\* within the file
FirstFrameOfChunk == IF kind = "ff" THEN 0 ELSE ChunkIndex * fr_chunk_no

\* C4: right after nextChunk or prevChunk the frame index is the first frame of
\* the selected chunk, for every handle
C4_ChunkStepResetsFrame ==
    lastOp.op \in ChunkSteps => current_frame = FirstFrameOfChunk

\* C5: nextFrame and prevFrame change the frame index (and the image file of
\* the images handle, which is the one of the new frame index) and nothing else
C5_FrameStepFrame ==
    [][lastOp'.op \in FrameSteps =>
         /\ UNCHANGED <<source, ff, cache, beginning_datetime, current_ff_index,
                        current_ff_file, current_frame_chunk, current_fr_chunk_size,
                        frame_chunk_unix_times, current_frame_time>>
         /\ IF kind = "images"
              THEN current_img_file' = Given(img_list(current_frame'))
              ELSE UNCHANGED current_img_file]_vars

\* C5 witness: nextFrame has left the window of the current chunk, whose
\* aggregate is cached
C5_Witness ==
    /\ kind \in Streaming
    /\ lastOp.op = "nextFrame"
    /\ current_frame >= (current_frame_chunk + 1) * fr_chunk_no
    /\ current_frame_chunk \in DOMAIN cache

\* a key of the cache: a file of the list, a chunk index, or -1
ValidKey(key) ==
    IF kind = "ff"
      THEN \E j \in 1..Len(ff_list) : ff_list[j] = key
      ELSE key = -1 \/ (0 <= key /\ key < total_fr_chunks)

\* C6: the cache holds at most one entry, under a valid chunk key or -1
C6_CacheAtMostOne ==
    /\ Cardinality(DOMAIN cache) <= 1
    /\ \A key \in DOMAIN cache : ValidKey(key)

\* C6 witness: the entry of chunk 0 made by the constructor was replaced by the
\* entry of the whole source
C6_Witness ==
    /\ kind \in {"vid", "images"}
    /\ DOMAIN cache = {-1}
    /\ current_frame_chunk > 0

\* C7 as stated: right after nextChunk or prevChunk the cache is empty
C7_ChunkStepClearsCache ==
    lastOp.op \in ChunkSteps => DOMAIN cache = {}

\* C7 amended: nextChunk and prevChunk leave the cache as it is, and a
\* loadChunk that finds its key in the cache serves the entry without decoding
\* and without changing the cache
C7_ChunkStepKeepsCache ==
    [][/\ lastOp'.op \in ChunkSteps => cache' = cache
       /\ (lastOp'.op = "loadChunk" /\ kind \in Streaming
             /\ CacheId(lastOp'.arg, current_frame_chunk) \in DOMAIN cache)
          => (nDecoded' = 0 /\ cache' = cache)
       /\ (lastOp'.op = "loadChunk" /\ kind = "ff" /\ current_ff_file \in DOMAIN cache)
          => (nDecoded' = 0 /\ cache' = cache)]_vars

\* C7 witness: after a chunk step the cache still holds the entry of the chunk
\* that was left
C7_Witness ==
    /\ kind \in Streaming
    /\ lastOp.op = "nextChunk"
    /\ current_frame_chunk = 1
    /\ DOMAIN cache = {0}

\* two returned values are the same object
RetEq(a, b) == a.tag = b.tag /\ (a.tag \in {"struct", "list", "frame"} => a.val = b.val)

\* C8: a second loadChunk with the same argument (unset or -1) right after the
\* first returns the same Aggregate and decodes nothing
C8_SecondLoadIsCached ==
    [][(/\ lastOp.op = "loadChunk"
        /\ lastOp'.op = "loadChunk"
        /\ lastOp.arg \in {None, Given(-1)}
        /\ lastOp'.arg = lastOp.arg)
       => (RetEq(lastRet', lastRet) /\ nDecoded' = 0)]_vars

\* the Aggregate of a returned value
ReturnedStruct(ret) == IF ret.tag = "list" THEN ret.val[1] ELSE ret.val

\* the per-pixel maximum over every frame of the source
TrueMax == CHOOSE m \in {frames[p] : p \in 1..total_frames} :
              \A q \in 1..total_frames : frames[q] <= m

\* C9: loadChunk(-1) of a streaming handle returns the maximum over every frame
\* of the source and records total_frames as the actual count
C9_WholeSourceMax ==
    (kind \in Streaming /\ lastOp.op = "loadChunk" /\ IsMinusOne(lastOp.arg))
      => /\ ReturnedStruct(lastRet).maxpixel = TrueMax
         /\ current_fr_chunk_size = total_frames

\* the video source of 600 frames
Video600 == kind = "video" /\ total_frames = 600 /\ fr_chunk_no = VideoChunkNo

\* the last call was loadChunk, with the default count, and it computed
DefaultLoadComputed ==
    lastOp.op = "loadChunk" /\ IsNone(lastOp.arg) /\ nDecoded > 0

\* C10 as stated: 600 video frames make 2 chunks, the default count on chunk 1
\* records 344, loadChunk(-1) records 600
C10_Video600AsStated ==
    Video600 =>
        /\ total_fr_chunks = 2
        /\ (DefaultLoadComputed /\ current_frame_chunk = 1) => current_fr_chunk_size = 344
        /\ (lastOp.op = "loadChunk" /\ IsMinusOne(lastOp.arg))
              => current_fr_chunk_size = 600

\* C10 amended: 600 video frames make 2 chunks, the default count on chunk 1
\* records 256 (the frames 256..511), loadChunk(-1) records 600
C10_Video600 ==
    Video600 =>
        /\ total_fr_chunks = 2
        /\ (DefaultLoadComputed /\ current_frame_chunk = 1) => current_fr_chunk_size = 256
        /\ (lastOp.op = "loadChunk" /\ IsMinusOne(lastOp.arg))
              => current_fr_chunk_size = 600

\* C10 witness: the default count was computed on chunk 1 of the 600 frames
C10_Witness ==
    /\ Video600
    /\ DefaultLoadComputed
    /\ current_frame_chunk = 1
    /\ nDecoded = 256

Min2(a, b) == IF a <= b THEN a ELSE b

\* the frames left in the source from the offset of the current chunk
Remaining == total_frames - current_frame_chunk * fr_chunk_no

\* the number of frames the claim C11 expects loadChunk to set out to read
ExpectedToRead(read_nframes) ==
    IF IsMinusOne(read_nframes) THEN total_frames
    ELSE IF IsNone(read_nframes) THEN Min2(fr_chunk_no, Remaining)
    ELSE Min2(Val(read_nframes), Remaining)

\* C11: the number of frames a loadChunk call sets out to read is
\* min(N, total_frames - c*chunk_length) for a positive count N, the nominal
\* chunk length under the same cap for the unset count, total_frames for -1
C11_FramesToReadCapped ==
    (kind \in Streaming /\ lastOp.op = "loadChunk")
      => computeFramesToRead(lastOp.arg, total_frames, fr_chunk_no, current_frame_chunk)
           = ExpectedToRead(lastOp.arg)

\* C12: a loadChunk call of a streaming handle that computes an aggregate
\* records as current_fr_chunk_size the number of frames it folded into it
C12_SizeIsFramesFolded ==
    [][(/\ kind \in Streaming
        /\ lastOp'.op = "loadChunk"
        /\ ~CacheHit(lastOp'.arg)
        /\ lastRet'.tag = "struct")
       => current_fr_chunk_size' = nDecoded']_vars

\* the sum of the pixel values of the frames lo..hi of the source
RECURSIVE SumFrames(_, _)
SumFrames(lo, hi) == IF lo > hi THEN 0 ELSE frames[lo + 1] + SumFrames(lo + 1, hi)

\* the last call was loadChunk with the default count on a source shorter than
\* one nominal chunk, and it returned an Aggregate
ShortDefaultLoad ==
    /\ kind \in Streaming
    /\ total_frames < fr_chunk_no
    /\ lastOp.op = "loadChunk"
    /\ IsNone(lastOp.arg)
    /\ lastRet.tag = "struct"

\* C13 as stated: the chunk cut short by the end of the source records fewer
\* frames than the nominal chunk length and its avepixel is the truncated sum
\* of the frames read divided by the nominal chunk length
C13_DivisorIsChunkLength ==
    ShortDefaultLoad =>
        /\ current_fr_chunk_size < fr_chunk_no
        /\ lastRet.val.avepixel
             = SumFrames(0, current_fr_chunk_size - 1) \div fr_chunk_no

\* C13 amended: ... divided by the frames left in the source from the chunk
\* offset (the count computeFramesToRead returns), not the nominal chunk length
C13_DivisorIsFramesLeft ==
    ShortDefaultLoad =>
        /\ current_fr_chunk_size < fr_chunk_no
        /\ lastRet.val.avepixel
             = SumFrames(0, current_fr_chunk_size - 1) \div Remaining

\* C13 witness: a short chunk whose avepixel tells the two divisors apart
C13_Witness ==
    /\ ShortDefaultLoad
    /\ current_fr_chunk_size > 0
    /\ SumFrames(0, current_fr_chunk_size - 1) \div Remaining
         # SumFrames(0, current_fr_chunk_size - 1) \div fr_chunk_no

\* the window a loadChunk call sets out to read runs past the last frame, so
\* the decode primitive is asked for a frame after the end of the stream
WindowPastEnd(read_nframes) ==
    FirstFrame(read_nframes, current_frame_chunk)
      + computeFramesToRead(read_nframes, total_frames, fr_chunk_no, current_frame_chunk)
      > total_frames

\* C14: a loadChunk call of a streaming handle whose window runs past the end
\* of the stream does not raise: it returns an Aggregate
C14_EndOfStreamNoRaise ==
    [][(/\ kind \in Streaming
        /\ lastOp'.op = "loadChunk"
        /\ ~CacheHit(lastOp'.arg)
        /\ WindowPastEnd(lastOp'.arg))
       => lastRet'.tag = "struct"]_vars

\* the number of frames a default-count pass aggregates for the current chunk
FramesOfCurrentChunk == ChunkResult(kind, None, current_frame_chunk).decoded

\* C15: once an aggregate has been computed, currentTime of the video and
\* images handles is the beginning time plus (c*chunk_length + k/2)/fps, with
\* k the number of frames aggregated for the current chunk c, in every state
C15_CurrentTimeOfChunk ==
    (kind \in {"video", "images"} /\ DOMAIN cache # {})
      => currentTime = beginning_datetime
                         + (2 * current_frame_chunk * fr_chunk_no + FramesOfCurrentChunk)

\* C16: currentFrameTime of the vid handle is defined and is the time embedded
\* in the frame at the current frame index, in every state
C16_FrameTimeOfCurrentFrame ==
    kind = "vid" =>
        /\ currentFrameTime.tag = "time"
        /\ currentFrameTime.val = unixTime2Date(VidFrameTime(current_frame))

\* the navigation state of the images handle, and the frame a loadFrame
\* without an index returns in it
NavigationKept ==
    /\ UNCHANGED <<current_frame_chunk, current_frame, current_img_file>>
    /\ LoadedFrame(FALSE, None)' = LoadedFrame(FALSE, None)

\* C17: loadFrame with an explicit index returns the frame at that index and
\* leaves chunk index, frame index and current image file as they were, so a
\* following loadFrame without an index returns what it would have returned;
\* so do the loadFrame calls loadChunk makes while it aggregates
C17_ExplicitIndexKeepsNavigation ==
    [][/\ (lastOp'.op = "loadFrame" /\ ~IsNone(lastOp'.arg))
            => (lastRet' = RetFrame(frames[Val(lastOp'.arg) + 1]) /\ NavigationKept)
       /\ (kind = "images" /\ lastOp'.op = "loadChunk") => NavigationKept]_vars

C17_Witness ==
    /\ lastOp.op = "loadFrame"
    /\ ~IsNone(lastOp.arg)
    /\ Val(lastOp.arg) # current_frame
    /\ lastRet = RetFrame(frames[Val(lastOp.arg) + 1])
    /\ lastRet # RetFrame(LoadedFrame(FALSE, None))

\* C20: in every state of the FF handle the current file is the entry of the
\* sorted file list at the current file index, and the beginning time is the
\* time in that file's name
C20_FileAndTimeFollowIndex ==
    kind = "ff" =>
        /\ current_ff_file = ff_list[current_ff_index + 1]
        /\ beginning_datetime = filenameToDatetime(current_ff_file)

C20_Witness ==
    /\ kind = "ff"
    /\ Len(ff_list) >= 2
    /\ lastOp.op = "prevChunk"
    /\ current_ff_index = Len(ff_list) - 1
    /\ current_frame > 0

\* the call went to the constructor of the video or the images handle
VideoOrImages == kind \in {"video", "images"}

\* no beginning time was given and the base name does not parse
NoBeginningTime ==
    IsNone(detect_args.beginning_time) /\ ~NameParses(detect_args.input_path)

\* C18: constructing the video or the images handle with no beginning time
\* and a name that does not parse ends the process, and no method of the
\* handle can be called; a beginning time that is given is the beginning time
\* of the handle whether the name parses or not
C18_BeginningTimeResolved ==
    VideoOrImages =>
        /\ NoBeginningTime => (img_handle = "exit" /\ ~ENABLED Next)
        /\ ~IsNone(detect_args.beginning_time)
              => beginning_datetime = Val(detect_args.beginning_time)

C18_Witness ==
    /\ VideoOrImages
    /\ NoBeginningTime
    /\ img_handle = "exit"

\* the path is a file with neither a valid FF name nor a supported extension
Unsupported(input_path) ==
    /\ ~input_path.is_dir
    /\ ~validFFName(input_path)
    /\ input_path.ext \notin VideoExts \cup {"vid"}

\* C19: on an unsupported file the dispatcher ends fatally, handing the caller
\* neither an adapter nor an ordinary return value; on every other path it
\* runs the constructor of exactly one adapter
C19_UnsupportedIsFatal ==
    IF Unsupported(detect_args.input_path)
      THEN img_handle = "exit"
      ELSE kind \in Kinds /\ img_handle \in {"handle", "exit"}

\* C21: for the FF handle, with one file or several, loadChunk right after
\* nextChunk or prevChunk leaves the frame index at 0, whatever frame steps
\* came before and whatever the cache held
C21_LoadAfterChunkStepResetsFrame ==
    [][(kind = "ff" /\ lastOp.op \in ChunkSteps /\ lastOp'.op = "loadChunk")
          => current_frame' = 0]_vars

\* the Aggregate a computation with the count read_nframes on the current
\* chunk produces
FreshStruct(read_nframes) == ChunkResult(kind, read_nframes, current_frame_chunk).struct

\* C22: an Aggregate that loadChunk of a streaming handle returns from the
\* cache is the one a fresh computation with the same count on the current
\* chunk would produce
C22_CachedIsFresh ==
    [][(/\ kind \in Streaming
        /\ lastOp'.op = "loadChunk"
        /\ CacheHit(lastOp'.arg)
        /\ ~ChunkResult(kind, lastOp'.arg, current_frame_chunk).raised)
       => ReturnedStruct(lastRet') = FreshStruct(lastOp'.arg)]_vars

\* C23: in every state of the images handle the current image file is the
\* entry of the image list at the frame index, so that loadFrame without an
\* index decodes the frame at the frame index
C23_ImageFileFollowsFrame ==
    kind = "images" =>
        /\ current_img_file = Given(img_list(current_frame))
        /\ LoadedFrame(FALSE, None) = Decode(current_frame)

\* C24: in every state of the FF handle the structure loadFrame reconstructs
\* frames from, whose frame count is the modulus of the frame steps, is the
\* one read from the file name() reports
C24_StructOfCurrentFile ==
    kind = "ff" =>
        /\ ff = readFF(current_ff_file)
        /\ FrameModulus = readFF(current_ff_file).nframes

\* the frames a default-count pass on chunk c folds
DefaultWindow(c) ==
    LET r == ChunkResult(kind, None, c)
    IN  {c * fr_chunk_no + j : j \in 0..(r.decoded - 1)}

\* C25: for a streaming handle the default-count windows of the chunks
\* 0..total_fr_chunks-1 cover every frame of the source, and only the last
\* of them may be shorter than the nominal chunk
C25_WindowsCoverSource ==
    kind \in Streaming =>
        /\ \A p \in 0..(total_frames - 1) :
              \E c \in 0..(total_fr_chunks - 1) : p \in DefaultWindow(c)
        /\ \A c \in 0..(total_fr_chunks - 2) : Cardinality(DefaultWindow(c)) = fr_chunk_no

\* C26: in every Aggregate loadChunk of a streaming handle returns, avepixel
\* is at most maxpixel; both are zero when the pass that computed it folded
\* no frame
C26_AveAtMostMax ==
    [][(kind \in Streaming /\ lastOp'.op = "loadChunk" /\ lastRet'.tag \in {"struct", "list"})
       => /\ ReturnedStruct(lastRet').avepixel <= ReturnedStruct(lastRet').maxpixel
          /\ (~CacheHit(lastOp'.arg) /\ nDecoded' = 0)
                => (ReturnedStruct(lastRet').avepixel = 0 /\ ReturnedStruct(lastRet').maxpixel = 0)]_vars

C26_Witness ==
    /\ kind \in Streaming
    /\ lastOp.op = "loadChunk"
    /\ lastRet.tag = "struct"
    /\ nDecoded > 0
    /\ nDecoded < computeFramesToRead(lastOp.arg, total_frames, fr_chunk_no, current_frame_chunk)
    /\ lastRet.val.avepixel > 0
    /\ lastRet.val.avepixel < lastRet.val.maxpixel

\* C27: loadChunk of a streaming handle, with any count, from the cache or
\* computed, leaves chunk index and frame index as they were, and what it
\* returns is an Aggregate whose frame count is total_frames
C27_LoadChunkKeepsNavigation ==
    [][(kind \in Streaming /\ lastOp'.op = "loadChunk")
       => /\ UNCHANGED <<current_frame_chunk, current_frame>>
          /\ lastRet'.tag # "raise"
                => (lastRet'.tag = "struct" /\ lastRet'.val.nframes = total_frames)]_vars

====
